---- MODULE Spec2Model ----
(***************************************************************************)
(* TexVerse_Util: path resolution (metadata lookup, bucket-scan fallback)  *)
(* and the bounded batch download with skip-existing.                      *)
(*                                                                         *)
(* Text (raw IDs, repo paths, local paths) is a sequence of one-character  *)
(* strings, so that pattern extraction, suffix parsing, prefix matching    *)
(* and path joining are computed as the Python code computes them.         *)
(* Optional[X] is a sequence of length <= 1: None is << >>.                *)
(***************************************************************************)
EXTENDS Integers, Sequences, FiniteSets, TLC

\* ------------------------------------------------------------------ bounds
MaxSrc == 3
MaxN == 2
MaxRuns == 2
MaxPaths == 2
MaxBuckets == 3

\* -------------------------------------------------------------- characters
None == << >>
Some(v) == << v >>

DigitChars == << "0", "1", "2", "3", "4", "5", "6", "7", "8", "9" >>
UpperCase == << "A", "B", "C", "D", "E", "F", "G", "H", "I", "J", "K", "L", "M",
                "N", "O", "P", "Q", "R", "S", "T", "U", "V", "W", "X", "Y", "Z" >>
LowerCase == << "a", "b", "c", "d", "e", "f", "g", "h", "i", "j", "k", "l", "m",
                "n", "o", "p", "q", "r", "s", "t", "u", "v", "w", "x", "y", "z" >>
\* the characters used, in code-point order (Python compares str by code point)
CodePoints == << " ", "-", ".", "/" >> \o DigitChars \o << ":" >> \o UpperCase
              \o << "_" >> \o LowerCase \o << "{", "}" >>

Range(s) == { s[i] : i \in 1..Len(s) }
IndexOf(s, c) == CHOOSE i \in 1..Len(s) : s[i] = c
CharSet == Range(CodePoints)
DigitSet == Range(DigitChars)
OrdMap == [c \in CharSet |-> IndexOf(CodePoints, c)]
LowerMap == [c \in CharSet |-> IF c \in Range(UpperCase) THEN LowerCase[IndexOf(UpperCase, c)] ELSE c]
UpperMap == [c \in CharSet |-> IF c \in Range(LowerCase) THEN UpperCase[IndexOf(LowerCase, c)] ELSE c]
Ord(c) == OrdMap[c]
IsDigit(c) == c \in DigitSet
CharLower(c) == LowerMap[c]
StrLower(s) == [i \in 1..Len(s) |-> CharLower(s[i])]
SetMin(S) == CHOOSE x \in S : \A y \in S : x <= y
SetMax(S) == CHOOSE x \in S : \A y \in S : y <= x

\* Python str < str
StrLess(a, b) ==
    LET n == IF Len(a) < Len(b) THEN Len(a) ELSE Len(b)
        d == { i \in 1..n : a[i] # b[i] }
    IN  IF d = {} THEN Len(a) < Len(b) ELSE Ord(a[SetMin(d)]) < Ord(b[SetMin(d)])

\* str.strip(chars)
Strip(s, chars) ==
    LET keep == { i \in 1..Len(s) : s[i] \notin chars }
    IN  IF keep = {} THEN << >> ELSE SubSeq(s, SetMin(keep), SetMax(keep))

\* str.startswith(prefix)
StartsWith(s, prefix) ==
    /\ Len(prefix) <= Len(s)
    /\ SubSeq(s, 1, Len(prefix)) = prefix

\* int(digits) and str(int)
RECURSIVE StrToInt(_)
StrToInt(s) ==
    IF s = << >> THEN 0
    ELSE 10 * StrToInt(SubSeq(s, 1, Len(s) - 1)) + (IndexOf(DigitChars, s[Len(s)]) - 1)

RECURSIVE IntToStr(_)
IntToStr(k) ==
    IF k < 10 THEN << DigitChars[k + 1] >>
    ELSE IntToStr(k \div 10) \o << DigitChars[(k % 10) + 1] >>

\* ------------------------------------------------------- module-level code
IdLen == 32
HexChars == DigitSet \cup { "a", "b", "c", "d", "e", "f" }

\* ID_PATTERN.search(text): the leftmost run of IdLen hex characters, any case
ID_PATTERN(text) ==
    LET hits == { i \in 1..(Len(text) - IdLen + 1) :
                    \A j \in i..(i + IdLen - 1) : CharLower(text[j]) \in HexChars }
    IN  IF hits = {} THEN None ELSE Some(SubSeq(text, SetMin(hits), SetMin(hits) + IdLen - 1))

\* RESOLUTION_PATTERN.search(path): "_" then 3 to 5 digits then ".glb" at the end
RESOLUTION_PATTERN(path) ==
    LET n == Len(path)
        ks == { k \in 3..5 :
                  /\ n >= k + 5
                  /\ StrLower(SubSeq(path, n - 3, n)) = << ".", "g", "l", "b" >>
                  /\ \A j \in (n - 3 - k)..(n - 4) : IsDigit(path[j])
                  /\ path[n - 4 - k] = "_" }
    IN  IF ks = {} THEN None
        ELSE Some(SubSeq(path, n - 3 - SetMin(ks), n - 4))

\* normalize_model_id: None stands for the ValueError it raises
normalize_model_id(raw_value) ==
    LET match == ID_PATTERN(Strip(raw_value, { " " }))
    IN  IF match = None THEN None ELSE Some(StrLower(match[1]))

parse_resolution_from_path(repo_path) ==
    LET match == RESOLUTION_PATTERN(repo_path)
    IN  IF match = None THEN None ELSE Some(StrToInt(match[1]))

\* ------------------------------------------------------------ StorageLayout
normalized_base_dir(layout) == Strip(layout.base_dir, { "/", " " })

supports_bucket_scan(layout) ==
    /\ layout.filename_suffix # None
    /\ layout.bucket_format # None
    /\ layout.bucket_count # None

\* Python truthiness of an Optional[int], and `a or b`
Truthy(opt) == opt # None /\ opt[1] # 0
Or(a, b) == IF Truthy(a) THEN a ELSE b

\* pathlib: a / b, for a relative b
PathJoin(a, b) == a \o << "/" >> \o b

\* bucket_format.format(index=index): "{index}" replaced by the decimal index
Placeholder == << "{", "i", "n", "d", "e", "x", "}" >>
Format(fmt, index) ==
    LET at == { p \in 1..(Len(fmt) - Len(Placeholder) + 1) :
                  SubSeq(fmt, p, p + Len(Placeholder) - 1) = Placeholder }
    IN  IF at = {} THEN fmt
        ELSE SubSeq(fmt, 1, SetMin(at) - 1) \o IntToStr(index)
             \o SubSeq(fmt, SetMin(at) + Len(Placeholder), Len(fmt))

FIXED == << "f", "i", "x", "e", "d" >>
HIGHEST_AVAILABLE == << "h", "i", "g", "h", "e", "s", "t", "_",
                        "a", "v", "a", "i", "l", "a", "b", "l", "e" >>

\* ----------------------------------------------------------------- state
VARIABLES
    mode,               \* TexVerseDownloader.mode (config)
    fixed_resolution,   \* TexVerseDownloader.fixed_resolution (config), Optional[int]
    layouts,            \* TexVerseDownloader.layouts, in dict order
    resolution_layouts, \* TexVerseDownloader.resolution_layouts: int -> layout
    fallback_layout,    \* TexVerseDownloader.fallback_layout, Optional[layout]
    metadata_index,     \* TexVerseDownloader.metadata_index, Optional[id -> entry]
    remote,             \* the hub: <<repo_id, repo_path>> -> outcome of a transfer
    disk,               \* the files that exist under output_dir (full paths)
    model_ids,          \* the source list read from textdata_path
    n_models,           \* --n-models
    arg_mode,           \* --mode, Optional
    arg_resolution,     \* --resolution, Optional[int]
    downloaded,         \* successful downloads of the current run
    scanned,            \* source entries consumed by the current run
    idx,                \* position of the for loop in model_ids
    run,                \* number of the current invocation
    pc,                 \* "loop" | "done" (batch), "call" | "exit0" | "exit1" | "crash" (single)
    log,                \* history: log[i] is what this run did with model_ids[i]
    earlier,            \* history: the IDs that earlier runs transferred
    disk0               \* history: the files under output_dir when this run began

vars == << mode, fixed_resolution, layouts, resolution_layouts, fallback_layout,
           metadata_index, remote, disk, model_ids, n_models, arg_mode,
           arg_resolution, downloaded, scanned, idx, run, pc, log, earlier, disk0 >>

config == << mode, fixed_resolution, layouts, resolution_layouts, fallback_layout,
             metadata_index, remote, model_ids, n_models, arg_mode, arg_resolution >>

output_dir == << "o", "u", "t" >>

\* Path.exists(): a file, or a directory holding one
PathExists(path) ==
    \E f \in disk : f = path \/ StartsWith(f, path \o << "/" >>)

\* what hf_hub_download answers for a file of a repository
Outcome(repo_id, repo_path) ==
    IF << repo_id, repo_path >> \in DOMAIN remote
    THEN remote[<< repo_id, repo_path >>] ELSE "NotFound"

\* ------------------------------------------------------ TexVerseDownloader
\* {layout.normalized_base_dir: layout for layout in layouts.values()}, as the
\* items in dict order: a key keeps its first position and its last value
base_dir_map ==
    LET n == Len(layouts)
        nbd(i) == normalized_base_dir(layouts[i])
        first == SelectSeq([i \in 1..n |-> i],
                           LAMBDA i : \A j \in 1..(i - 1) : nbd(j) # nbd(i))
    IN  [k \in 1..Len(first) |->
            [base_dir |-> nbd(first[k]),
             layout |-> layouts[SetMax({ j \in 1..n : nbd(j) = nbd(first[k]) })]]]

_layout_for_repo_path(repo_path) ==
    LET normalized == Strip(repo_path, { "/", " " })
        items == base_dir_map
        hits == { k \in 1..Len(items) :
                    StartsWith(normalized, items[k].base_dir \o << "/" >>) }
    IN  IF hits = {} THEN None ELSE Some(items[SetMin(hits)].layout)

_layout_for_resolution(resolution) ==
    IF resolution = None THEN None
    ELSE IF resolution[1] \in DOMAIN resolution_layouts
         THEN Some(resolution_layouts[resolution[1]]) ELSE None

\* the (resolution, repo_path, layout) list built by _select_path_via_metadata
Candidates(glb_paths) ==
    LET looked == [k \in 1..Len(glb_paths) |->
                     [res |-> LET r == parse_resolution_from_path(glb_paths[k])
                              IN  IF Truthy(r) THEN r[1] ELSE 0,
                      path |-> glb_paths[k],
                      layout |-> _layout_for_repo_path(glb_paths[k])]]
        known == SelectSeq(looked, LAMBDA c : c.layout # None)
    IN  [k \in 1..Len(known) |->
            [res |-> known[k].res, path |-> known[k].path, layout |-> known[k].layout[1]]]

\* key=lambda item: (item[0], item[1]), compared as Python compares tuples
KeyLess(x, y) == x.res < y.res \/ (x.res = y.res /\ StrLess(x.path, y.path))

MaxByKey_resolutionOnly(candidates) ==
    candidates[SetMin({ i \in 1..Len(candidates) :
                          \A j \in 1..Len(candidates) : candidates[j].res <= candidates[i].res })]
\* max(candidates, key=...): the first item no other item's key exceeds
MaxByKey(candidates) ==
    candidates[SetMin({ i \in 1..Len(candidates) :
                          \A j \in 1..Len(candidates) : ~KeyLess(candidates[i], candidates[j]) })]

_select_path_via_metadata_fallthrough(model_id, m, target_resolution) ==
    IF metadata_index = None \/ DOMAIN metadata_index[1] = {} THEN None
    ELSE IF model_id \notin DOMAIN metadata_index[1] THEN None
    ELSE LET candidates == Candidates(metadata_index[1][model_id].glb_paths)
         IN  IF candidates = << >> THEN None
             ELSE IF m = FIXED /\ Truthy(target_resolution)
             THEN LET hit == { i \in 1..Len(candidates) :
                                 candidates[i].res = target_resolution[1] }
                  IN  IF hit = {} THEN Some([path |-> MaxByKey(candidates).path,
                                             layout |-> MaxByKey(candidates).layout])
                      ELSE Some([path |-> candidates[SetMin(hit)].path,
                                 layout |-> candidates[SetMin(hit)].layout])
             ELSE LET best == MaxByKey(candidates)
                  IN  Some([path |-> best.path, layout |-> best.layout])

\* None stands for (None, None), else Some([path, layout])
_select_path_via_metadata(model_id, m, target_resolution) ==
    IF metadata_index = None \/ DOMAIN metadata_index[1] = {} THEN None
    ELSE IF model_id \notin DOMAIN metadata_index[1] THEN None
    ELSE LET candidates == Candidates(metadata_index[1][model_id].glb_paths)
         IN  IF candidates = << >> THEN None
             ELSE IF m = FIXED /\ Truthy(target_resolution)
             THEN LET hit == { i \in 1..Len(candidates) :
                                 candidates[i].res = target_resolution[1] }
                  IN  IF hit = {} THEN None
                      ELSE Some([path |-> candidates[SetMin(hit)].path,
                                 layout |-> candidates[SetMin(hit)].layout])
             ELSE LET best == MaxByKey(candidates)
                  IN  Some([path |-> best.path, layout |-> best.layout])

\* one hf_hub_download call: what was asked and what came back
Attempt(layout, repo_path, index) ==
    [repo_id |-> layout.repo_id, path |-> repo_path, index |-> index,
     layout |-> layout.name, outcome |-> Outcome(layout.repo_id, repo_path)]

\* the result of a download: status "ok" or the exception raised
Result(status, attempts, via, layout_name) ==
    [status |-> status,
     layout |-> layout_name,
     local_path |-> IF status = "ok"
                    THEN Some(PathJoin(output_dir, attempts[Len(attempts)].path)) ELSE None,
     attempts |-> attempts,
     via |-> via]

\* the exception a failed hf_hub_download raises
Raised(outcome) == IF outcome = "OtherError" THEN "OtherError" ELSE "HfHubHTTPError"

_download_direct(layout, repo_path, model_id) ==
    LET a == Attempt(layout, repo_path, None)
    IN  Result(IF a.outcome = "ok" THEN "ok" ELSE Raised(a.outcome), << a >>, "metadata", layout.name)

bucket_path(layout, model_id, index) ==
    normalized_base_dir(layout) \o << "/" >> \o Format(layout.bucket_format[1], index)
        \o << "/" >> \o model_id \o layout.filename_suffix[1]

RECURSIVE ScanFrom_swallow(_, _, _, _)
ScanFrom_swallow(layout, model_id, index, attempts) ==
    IF index >= layout.bucket_count[1]
    THEN [status |-> "FileNotFoundError", layout |-> layout.name, local_path |-> None,
          attempts |-> attempts, via |-> "scan"]
    ELSE LET a == [repo_id |-> layout.repo_id,
                   path |-> normalized_base_dir(layout) \o << "/" >>
                            \o Format(layout.bucket_format[1], index)
                            \o << "/" >> \o model_id \o layout.filename_suffix[1],
                   index |-> Some(index), layout |-> layout.name,
                   outcome |-> Outcome(layout.repo_id,
                       normalized_base_dir(layout) \o << "/" >>
                       \o Format(layout.bucket_format[1], index)
                       \o << "/" >> \o model_id \o layout.filename_suffix[1])]
             seen == Append(attempts, a)
         IN  IF a.outcome = "ok"
             THEN [status |-> "ok", layout |-> layout.name,
                   local_path |-> Some(PathJoin(output_dir, a.path)),
                   attempts |-> seen, via |-> "scan"]
             ELSE ScanFrom_swallow(layout, model_id, index + 1, seen)

\* the for loop of _download_via_bucket_scan from bucket `index` on
RECURSIVE ScanFrom(_, _, _, _)
ScanFrom(layout, model_id, index, attempts) ==
    IF index >= layout.bucket_count[1]
    THEN Result("FileNotFoundError", attempts, "scan", layout.name)
    ELSE LET a == Attempt(layout, bucket_path(layout, model_id, index), Some(index))
             seen == Append(attempts, a)
         IN  IF a.outcome = "ok" THEN Result("ok", seen, "scan", layout.name)
             ELSE IF a.outcome = "NotFound" THEN ScanFrom(layout, model_id, index + 1, seen)
             ELSE Result(Raised(a.outcome), seen, "scan", layout.name)

_download_via_bucket_scan_from1(layout, model_id) ==
    IF ~supports_bucket_scan(layout) THEN Result("ValueError", << >>, "scan", layout.name)
    ELSE ScanFrom(layout, model_id, 1, << >>)

_download_via_bucket_scan(layout, model_id) ==
    IF ~supports_bucket_scan(layout) THEN Result("ValueError", << >>, "scan", layout.name)
    ELSE ScanFrom(layout, model_id, 0, << >>)

TargetResolution_anyMode(m, resolution) ==
    LET selected_mode == StrLower(IF m # None THEN m[1] ELSE mode)
    IN  Or(resolution, IF selected_mode = FIXED THEN fixed_resolution ELSE None)

\* the value of target_resolution after the mode and the resolution are settled
TargetResolution(m, resolution) ==
    LET selected_mode == StrLower(IF m # None THEN m[1] ELSE mode)
    IN  IF selected_mode = FIXED THEN Or(resolution, fixed_resolution) ELSE None

\* the one element of a singleton set: { e(x) : x \in { v } } binds x to v once
The(S) == CHOOSE v \in S : TRUE

\* download() from the metadata lookup on, the ID and the policy being settled
Resolve(model_id, selected_mode, target_resolution) ==
    The({ IF found # None
          THEN _download_direct(found[1].layout, found[1].path, model_id)
          ELSE IF chosen # None /\ supports_bucket_scan(chosen[1])
          THEN _download_via_bucket_scan(chosen[1], model_id)
          ELSE Result("FileNotFoundError", << >>, "none", "none") :
          found \in { _select_path_via_metadata(model_id, selected_mode, target_resolution) },
          chosen \in { IF Truthy(target_resolution)
                       THEN _layout_for_resolution(target_resolution)
                       ELSE fallback_layout } })

\* TexVerseDownloader.download(raw_model_id, mode=m, resolution=resolution)
download(raw_model_id, m, resolution) ==
    The({ IF id = None THEN Result("ValueError", << >>, "none", "none")
          ELSE IF selected_mode \notin { HIGHEST_AVAILABLE, FIXED }
          THEN Result("ValueError", << >>, "none", "none")
          ELSE IF selected_mode = FIXED /\ ~Truthy(target_resolution)
          THEN Result("ValueError", << >>, "none", "none")
          ELSE Resolve(id[1], selected_mode, target_resolution) :
          id \in { normalize_model_id(raw_model_id) },
          selected_mode \in { StrLower(IF m # None THEN m[1] ELSE mode) },
          target_resolution \in { TargetResolution(m, resolution) } })

\* --------------------------------------------------------- inputs drawn
CharUpper(c) == UpperMap[c]
StrUpper(s) == [i \in 1..Len(s) |-> CharUpper(s[i])]

IdA == [i \in 1..IdLen |-> "a"]
IdB == [i \in 1..IdLen |-> IF i % 2 = 1 THEN "b" ELSE "4"]
\* a line that is the ID, a line with the ID in upper case inside other text,
\* a line with no run of IdLen hex characters
RawA == IdA
RawB == << "X", ":" >> \o StrUpper(IdB) \o << ".", "g", "l", "b" >>
RawBad == << "n", "o", "-" >> \o SubSeq(IdB, 1, IdLen - 1)
\* surrounding spaces, and a hex character in front of the ID
RawSpaced == << " ", "f" >> \o IdA \o << " " >>
BOGUS == << "l", "o", "w" >>

Layout1k(count) ==
    [name |-> "glbs_1k", repo_id |-> "YiboZhang2001/TexVerse", repo_type |-> "dataset",
     base_dir |-> << "g", "1" >>,
     filename_suffix |-> Some(<< "_", "1", "0", "2", "4", ".", "g", "l", "b" >>),
     bucket_format |-> Some(<< "b" >> \o Placeholder),
     bucket_count |-> count]
Layout2k(count) ==
    [name |-> "glbs_2k", repo_id |-> "YiboZhang2001/TexVerse", repo_type |-> "dataset",
     base_dir |-> << "g", "2", "/" >>,
     filename_suffix |-> Some(<< "_", "2", "0", "4", "8", ".", "G", "L", "B" >>),
     bucket_format |-> Some(<< "b" >> \o Placeholder),
     bucket_count |-> count]

RepoPath(base, bucket, id, suffix) == base \o << "/" >> \o bucket \o << "/" >> \o id \o suffix
P512 == RepoPath(<< "g", "1" >>, << "b", "0" >>, IdA, << "_", "5", "1", "2", ".", "g", "l", "b" >>)
P1024 == RepoPath(<< "g", "1" >>, << "b", "1" >>, IdA, << "_", "1", "0", "2", "4", ".", "g", "l", "b" >>)
P1024b == RepoPath(<< "g", "2" >>, << "b", "0" >>, IdA, << "_", "1", "0", "2", "4", ".", "g", "l", "b" >>)
P2048 == RepoPath(<< "g", "2" >>, << "b", "0" >>, IdA, << "_", "2", "0", "4", "8", ".", "G", "L", "B" >>)
PNoRes == RepoPath(<< "g", "1" >>, << "b", "0" >>, IdA, << ".", "g", "l", "b" >>)
PUnknown == RepoPath(<< "z", "z" >>, << "b", "0" >>, IdA, << "_", "4", "0", "9", "6", ".", "g", "l", "b" >>)
PathPool == { P512, P1024, P1024b, P2048, PNoRes, PUnknown }

Outcomes == { "ok", "NotFound", "HttpError", "OtherError" }
Repo == "YiboZhang2001/TexVerse"

\* all sequences over S of length lo..hi
SeqsOf(S, lo, hi) == UNION { [1..k -> S] : k \in lo..hi }

\* the bucket paths of a layout for an ID, as keys of the hub
ScanKeys(layout, id, count) == { << Repo, bucket_path(layout, id, i) >> : i \in 0..(count - 1) }

Idle ==
    /\ downloaded = 0 /\ scanned = 0 /\ idx = 0 /\ run = 1 /\ log = << >> /\ earlier = {}

\* -------------------------------------------------- batch: download N new
\* the hub as one ID sees it: the outcomes of its two bucket paths
Profile(id, o0, o1) ==
    LET k0 == << Repo, bucket_path(Layout1k(Some(2)), id, 0) >>
        k1 == << Repo, bucket_path(Layout1k(Some(2)), id, 1) >>
    IN  [x \in { k0, k1 } |-> IF x = k0 THEN o0 ELSE o1]

HubPool ==
    { Profile(IdA, "NotFound", "ok") @@ Profile(IdB, "ok", "ok"),
      Profile(IdA, "NotFound", "NotFound") @@ Profile(IdB, "ok", "ok"),
      Profile(IdA, "NotFound", "OtherError") @@ Profile(IdB, "ok", "ok"),
      Profile(IdA, "NotFound", "ok") @@ Profile(IdB, "HttpError", "ok") }

ConfigPool ==
    { [mode |-> HIGHEST_AVAILABLE, fixed |-> None, meta |-> None],
      [mode |-> HIGHEST_AVAILABLE, fixed |-> None,
       meta |-> Some([id \in { IdA } |-> [glb_paths |-> << P512, P1024 >>]])],
      [mode |-> StrUpper(FIXED), fixed |-> Some(1024), meta |-> None],
      [mode |-> FIXED, fixed |-> None, meta |-> None],
      [mode |-> BOGUS, fixed |-> None, meta |-> None] }

InitBatch ==
    /\ \E c \in ConfigPool :
        /\ mode = c.mode
        /\ fixed_resolution = c.fixed
        /\ metadata_index = c.meta
    /\ layouts = << Layout1k(Some(2)), Layout2k(None) >>
    /\ resolution_layouts = [r \in { 1024 } |-> Layout1k(Some(2))]
    /\ fallback_layout = Some(Layout1k(Some(2)))
    /\ remote \in HubPool
    /\ disk \in { {}, { PathJoin(output_dir, IdA) }, { PathJoin(output_dir, IdB) } }
    /\ model_ids \in SeqsOf({ RawA, RawB, RawBad }, 1, MaxSrc)
    /\ n_models \in 0..MaxN
    /\ arg_mode = None
    /\ arg_resolution = None
    /\ pc = "loop"
    /\ disk0 = disk
    /\ Idle

NoCall == [status |-> "none", layout |-> "none", local_path |-> None, attempts |-> << >>, via |-> "none"]
Entry(kind, res) == [kind |-> kind, res |-> res]

BreakNow_late == downloaded > n_models
BreakNow_never == FALSE
\* if downloaded >= n_models: break
BreakNow == downloaded >= n_models

ExpectedPath_glb(model_id) == PathJoin(output_dir, model_id \o << ".", "g", "l", "b" >>)
\* expected_path = downloader.output_dir / model_id
ExpectedPath(model_id) == PathJoin(output_dir, model_id)

Caught_listed(status) == status \in { "ValueError", "FileNotFoundError", "HfHubHTTPError" }
\* except Exception: every exception a download raises is an Exception
Caught(status) == status \in { "ValueError", "FileNotFoundError", "HfHubHTTPError", "OtherError" }

\* the for loop has a next raw_id and does not break on it
HasNext == idx < Len(model_ids) /\ ~BreakNow

\* one iteration of the for loop of download_n_models_from_config
ProcessEntry ==
    /\ pc = "loop"
    /\ HasNext
    /\ idx' = idx + 1
    /\ scanned' = scanned + 1
    /\ \E model_id \in { normalize_model_id(model_ids[idx + 1]) } :
         IF model_id = None
         THEN /\ log' = Append(log, Entry("fail", Result("ValueError", << >>, "none", "none")))
              /\ pc' = IF Caught("ValueError") THEN pc ELSE "raised"
              /\ UNCHANGED << disk, downloaded >>
         ELSE IF PathExists(ExpectedPath(model_id[1]))
         THEN /\ log' = Append(log, Entry("skip", NoCall))
              /\ UNCHANGED << disk, downloaded, pc >>
         ELSE \E res \in { download(model_id[1], arg_mode, arg_resolution) } :
                /\ log' = Append(log, Entry(IF res.status = "ok" THEN "ok" ELSE "fail", res))
                /\ IF res.status = "ok"
                   THEN /\ disk' = disk \cup { res.local_path[1] }
                        /\ downloaded' = downloaded + 1
                        /\ pc' = pc
                   ELSE /\ pc' = IF Caught(res.status) THEN pc ELSE "raised"
                        /\ UNCHANGED << disk, downloaded >>
    /\ UNCHANGED << config, run, earlier, disk0 >>

\* the loop ends (list exhausted, or the break) and the summary is printed
LoopExit ==
    /\ pc = "loop"
    /\ ~HasNext
    /\ pc' = "done"
    /\ UNCHANGED << config, disk, downloaded, scanned, idx, run, log, earlier, disk0 >>

\* the command is run again: same config, same list, same output directory
Rerun ==
    /\ pc = "done"
    /\ run < MaxRuns
    /\ run' = run + 1
    /\ downloaded' = 0
    /\ scanned' = 0
    /\ idx' = 0
    /\ pc' = "loop"
    /\ log' = << >>
    /\ earlier' = earlier \cup { normalize_model_id(model_ids[i])[1] :
                                  i \in { j \in 1..Len(log) : log[j].kind = "ok" } }
    /\ disk0' = disk
    /\ UNCHANGED << config, disk >>

Next == ProcessEntry \/ LoopExit \/ Rerun

Init == InitBatch
Spec == Init /\ [][Next]_vars

\* ------------------------------------------ single ID: download_model_by_id
\* the hub as a scan sees it: not-found up to bucket j, one outcome there,
\* and the file present in every later bucket
ScanShapes(layout, id) ==
    LET paths == [i \in 1..MaxBuckets |-> bucket_path(layout, id, i - 1)]
        keys == ScanKeys(layout, id, MaxBuckets)
    IN  { [k \in keys |->
             LET i == IndexOf(paths, k[2]) - 1
             IN  IF i < j THEN "NotFound" ELSE IF i = j THEN o ELSE "ok"] :
            j \in 0..MaxBuckets, o \in Outcomes \ { "NotFound" } }

\* metadata records of every shape, a hub that holds every listed file
InitMeta ==
    /\ mode = HIGHEST_AVAILABLE
    /\ arg_mode \in { None, Some(FIXED) }
    /\ arg_resolution \in { None, Some(1024), Some(4096) }
    /\ fixed_resolution \in { None, Some(2048) }
    /\ metadata_index \in { None, Some(<< >>) }
            \cup { Some([id \in { IdA } |-> [glb_paths |-> ps]]) : ps \in SeqsOf(PathPool, 0, MaxPaths) }
    /\ layouts = << Layout1k(Some(1)), Layout2k(None) >>
    /\ resolution_layouts = [r \in { 1024 } |-> Layout1k(Some(1))]
    /\ fallback_layout \in { None, Some(Layout1k(Some(1))) }
    /\ \E o \in { "ok", "NotFound" } :
         remote = [k \in { << Repo, q >> : q \in PathPool } |-> "ok"]
                  @@ [k \in ScanKeys(Layout1k(Some(1)), IdA, 1) |-> o]
    /\ model_ids \in { << RawA >>, << RawSpaced >> }

\* no usable metadata record; layouts, routing and hub of every shape
InitScan ==
    /\ mode = HIGHEST_AVAILABLE
    /\ arg_mode \in { None, Some(FIXED) }
    /\ arg_resolution \in { None, Some(1024) }
    /\ fixed_resolution \in { None, Some(2048) }
    /\ metadata_index \in { None, Some([id \in { IdA } |-> [glb_paths |-> << PUnknown >>]]) }
    /\ \E c1 \in { None } \cup { Some(k) : k \in 0..MaxBuckets }, c2 \in { None, Some(1) } :
         /\ layouts = << Layout1k(c1), Layout2k(c2) >>
         /\ resolution_layouts \in
                { << >>, [r \in { 1024 } |-> Layout1k(c1)], [r \in { 1024 } |-> Layout2k(c2)],
                  [r \in { 1024, 2048 } |-> IF r = 1024 THEN Layout1k(c1) ELSE Layout2k(c2)] }
         /\ fallback_layout \in { None, Some(Layout1k(c1)), Some(Layout2k(c2)) }
         /\ \E sh \in ScanShapes(Layout1k(c1), IdA) :
              remote = sh @@ [k \in ScanKeys(Layout2k(Some(1)), IdA, 1) |-> "ok"]
    /\ model_ids = << RawA >>

InitOne ==
    /\ (InitMeta \/ InitScan)
    /\ disk = {}
    /\ n_models = 1
    /\ pc = "call"
    /\ disk0 = disk
    /\ Idle

\* main() of download_model_by_id.py: one download, then the exit
DownloadOne ==
    /\ pc = "call"
    /\ \E res \in { download(model_ids[1], arg_mode, arg_resolution) } :
           /\ log' = Append(log, Entry(IF res.status = "ok" THEN "ok" ELSE "fail", res))
           /\ disk' = IF res.status = "ok" THEN disk \cup { res.local_path[1] } ELSE disk
           /\ pc' = IF res.status = "ok" THEN "exit0"
                    ELSE IF res.status = "OtherError" THEN "crash" ELSE "exit1"
    /\ UNCHANGED << config, downloaded, scanned, idx, run, earlier, disk0 >>

NextOne == DownloadOne
SpecOne == InitOne /\ [][NextOne]_vars


\* ======================================================= properties: batch
\* the successful entries among the first k of this run
OkSet(k) == { i \in 1..k : log[i].kind = "ok" }
OkCount(k) == Cardinality(OkSet(k))
IdOf(i) == normalize_model_id(model_ids[i])
\* "the expected local path exists": output_dir/<id> is a file or a directory of d
Present(d, id) ==
    LET expected == output_dir \o << "/" >> \o id
    IN  \E f \in d : f = expected \/ (Len(f) > Len(expected)
                                       /\ SubSeq(f, 1, Len(expected) + 1) = expected \o << "/" >>)

\* C1: the counter of successful downloads never exceeds n, and every source
\* entry that was examined was examined while downloaded was still below n
\* (scanned counts exactly the examined entries).
C1_NeverExceedsN ==
    pc \in { "loop", "done" } =>
        /\ downloaded <= n_models
        /\ scanned = Len(log)
        /\ downloaded = OkCount(Len(log))
        /\ \A i \in 1..Len(log) : OkCount(i - 1) < n_models
        /\ \A i \in 1..Len(log) : log[i].kind # "ok" => log[i].res.local_path = None

C1_Witness ==
    /\ pc = "done" /\ n_models > 0 /\ downloaded = n_models
    /\ scanned < Len(model_ids)

\* C2: an ID that an earlier run transferred successfully is skipped by a
\* later run over the same list and output directory, with no transfer attempt.
C2_EarlierSkipped ==
    pc \in { "loop", "done" } =>
        \A i \in 1..Len(log) :
            (IdOf(i) # None /\ IdOf(i)[1] \in earlier) =>
                (log[i].kind = "skip" /\ log[i].res.attempts = << >>)

\* C3: an entry whose expected path exists when it is reached is counted in
\* scanned, not in downloaded, and nothing is resolved or transferred for it;
\* an entry whose expected path does not exist gets the single-ID download.
C3_SkipExisting ==
    [][(pc = "loop" /\ idx' = idx + 1) =>
        LET raw_id == model_ids[idx']
            id == normalize_model_id(raw_id)
            e == log'[Len(log')]
        IN  /\ scanned' = scanned + 1
            /\ Len(log') = Len(log) + 1
            /\ (id # None /\ Present(disk, id[1])) =>
                  /\ e.kind = "skip"
                  /\ e.res.attempts = << >> /\ e.res.via = "none" /\ e.res.status = "none"
                  /\ downloaded' = downloaded
                  /\ disk' = disk
            /\ (id # None /\ ~Present(disk, id[1])) =>
                  /\ e.kind # "skip"
                  /\ e.res = download(raw_id, arg_mode, arg_resolution)
                  /\ e.kind = "ok" => (downloaded' = downloaded + 1 /\ e.res.local_path[1] \in disk')
                  /\ e.kind = "fail" => (downloaded' = downloaded /\ disk' = disk)
    ]_vars

C3_Witness ==
    /\ pc = "done"
    /\ \E i, j \in 1..Len(log) :
         /\ log[i].kind = "skip" /\ log[j].kind = "ok" /\ i < j
         /\ scanned = Len(log) /\ downloaded < scanned

\* C4: a run downloads exactly the first n entries, in source order, that are
\* neither present nor failing (all of them if fewer than n); downloaded is
\* their number and scanned the position of the n-th, or the list length.
Failing(i) ==
    IdOf(i) = None \/ download(model_ids[i], arg_mode, arg_resolution).status # "ok"
FirstN(eligible, n) == { i \in eligible : Cardinality({ j \in eligible : j <= i }) <= n }

C4_FirstNNew ==
    pc = "done" =>
        LET eligible == { i \in 1..Len(model_ids) : ~Failing(i) /\ ~Present(disk0, IdOf(i)[1]) }
            chosen == FirstN(eligible, n_models)
        IN  /\ OkSet(Len(log)) = chosen
            /\ downloaded = Cardinality(chosen)
            /\ scanned = IF Cardinality(eligible) >= n_models
                         THEN (IF n_models = 0 THEN 0 ELSE SetMax(chosen))
                         ELSE Len(model_ids)
            /\ \A i \in chosen :
                 /\ log[i].res.local_path[1] \in disk
                 /\ normalize_model_id(log[i].res.local_path[1]) = IdOf(i)

C4_Witness ==
    /\ pc = "done" /\ n_models = 2 /\ downloaded = 2 /\ scanned = 3
    /\ log[1].kind # "ok"

\* C5: a failure on one ID (no ID in the text, unsupported or incomplete
\* policy, no path resolved, a transfer error) is caught for that ID only:
\* the loop goes on, downloaded does not count the ID, and the run ends
\* without raising.
C5_ContinueOnError ==
    pc \notin { "call", "exit0", "exit1", "crash" } =>
        /\ pc \in { "loop", "done" }
        /\ idx = Len(log) /\ idx <= Len(model_ids)
        /\ \A i \in 1..Len(log) :
             log[i].kind = "fail" <=> log[i].res.status \in
                { "ValueError", "FileNotFoundError", "HfHubHTTPError", "OtherError" }
        /\ downloaded = OkCount(Len(log))
        /\ pc = "done" => (Len(log) = Len(model_ids) \/ downloaded >= n_models)

C5_Witness ==
    /\ pc = "done"
    /\ \E i, j \in 1..Len(log) :
         /\ i < j /\ log[i].kind = "fail" /\ log[i].res.status = "OtherError"
         /\ log[j].kind = "ok"

\* =================================================== properties: single ID
Returned == pc \in { "exit0", "exit1", "crash" }
TheId == IdOf(1)[1]
IsFixed == StrLower(IF arg_mode # None THEN arg_mode[1] ELSE mode) = FIXED
IsHighest == StrLower(IF arg_mode # None THEN arg_mode[1] ELSE mode) = HIGHEST_AVAILABLE
\* the resolution the fixed policy works with: the caller's, else the configured
FixedTarget == IF Truthy(arg_resolution) THEN arg_resolution ELSE fixed_resolution
HasRecord == metadata_index # None /\ TheId \in DOMAIN metadata_index[1]
Listed == metadata_index[1][TheId].glb_paths
\* the path lies under the base path of some layout
OwnerKnown(path) ==
    \E i \in 1..Len(layouts) :
        StartsWith(Strip(path, { "/", " " }), Strip(layouts[i].base_dir, { "/", " " }) \o << "/" >>)
\* the resolution a path encodes, 0 without a numeric suffix
ResOf(path) ==
    LET x == parse_resolution_from_path(path) IN IF x = None THEN 0 ELSE x[1]
CanScan(opt) ==
    /\ opt # None
    /\ opt[1].filename_suffix # None /\ opt[1].bucket_format # None /\ opt[1].bucket_count # None
Routed(target) ==
    IF target # None /\ target[1] \in DOMAIN resolution_layouts
    THEN Some(resolution_layouts[target[1]]) ELSE None
\* the remote path of bucket i of a layout: base/b<i>/<id><suffix>
BucketFile(lay, i) ==
    Strip(lay.base_dir, { "/", " " }) \o << "/", "b" >> \o IntToStr(i)
        \o << "/" >> \o TheId \o lay.filename_suffix[1]
Hub(path) == IF << Repo, path >> \in DOMAIN remote THEN remote[<< Repo, path >>] ELSE "NotFound"
ScannedLayout(res) == layouts[CHOOSE i \in 1..Len(layouts) : layouts[i].name = res.layout]

\* C6: fixed policy, record loaded: the first listed candidate (owner known)
\* whose resolution equals the target is the one transferred; with no such
\* candidate no listed path is used and resolution goes on to the bucket scan
\* or fails as unresolved.
C6_FixedExact ==
    (Returned /\ IsFixed /\ Truthy(FixedTarget) /\ HasRecord) =>
        LET res == log[1].res
            paths == Listed
            match == { i \in 1..Len(paths) :
                         OwnerKnown(paths[i]) /\ ResOf(paths[i]) = FixedTarget[1] }
        IN  IF match # {}
            THEN /\ res.via = "metadata"
                 /\ Len(res.attempts) = 1
                 /\ res.attempts[1].path = paths[SetMin(match)]
            ELSE /\ res.via # "metadata"
                 /\ \A k \in 1..Len(res.attempts) : res.attempts[k].index # None
                 /\ \/ res.via = "scan"
                    \/ (res.status = "FileNotFoundError" /\ res.attempts = << >>)

C6_Witness ==
    /\ Returned /\ IsFixed /\ HasRecord
    /\ FixedTarget = Some(1024)
    /\ Listed = << P512, P2048 >>
    /\ log[1].res.via = "scan" /\ log[1].res.status = "ok"

C8_BucketScanOrder ==
    (Returned /\ log[1].res.via = "scan") =>
        LET res == log[1].res
            lay == ScannedLayout(res)
            k == lay.bucket_count[1]
            n == Len(res.attempts)
            firstOk == { i \in 0..(k - 1) :
                           /\ Hub(BucketFile(lay, i)) = "ok"
                           /\ \A j \in 0..(i - 1) : Hub(BucketFile(lay, j)) = "NotFound" }
        IN  /\ n <= k
            /\ \A i \in 1..n :
                 /\ res.attempts[i].index = Some(i - 1)
                 /\ res.attempts[i].path = BucketFile(lay, i - 1)
                 /\ res.attempts[i].outcome = Hub(BucketFile(lay, i - 1))
            /\ \A i \in 1..(n - 1) : res.attempts[i].outcome = "NotFound"
            /\ \A i \in firstOk :
                 /\ res.status = "ok"
                 /\ n = i + 1
                 /\ res.local_path = Some(output_dir \o << "/" >> \o BucketFile(lay, i))
            /\ res.status = "ok" => firstOk # {}
            /\ (\A i \in 0..(k - 1) : Hub(BucketFile(lay, i)) = "NotFound") =>
                 (res.status = "FileNotFoundError" /\ n = k)

C8_Witness ==
    /\ Returned /\ log[1].res.via = "scan" /\ log[1].res.status = "ok"
    /\ ScannedLayout(log[1].res).bucket_count = Some(3)
    /\ Len(log[1].res.attempts) = 2
    /\ Hub(BucketFile(ScannedLayout(log[1].res), 2)) = "ok"

\* the download got past the metadata step without a path
MetadataNothing ==
    /\ Returned
    /\ log[1].res.via # "metadata"
    /\ IsFixed => Truthy(FixedTarget)
\* the layout is the one scanned, or, unusable, nothing is tried at all
ScansOnly(want) ==
    LET res == log[1].res
    IN  IF CanScan(want)
        THEN /\ res.via = "scan" /\ res.layout = want[1].name
             /\ \A i \in 1..Len(res.attempts) : res.attempts[i].layout = want[1].name
        ELSE /\ res.status = "FileNotFoundError" /\ res.attempts = << >> /\ res.via = "none"

\* C9 as stated: the layout scanned is layoutForResolution(targetResolution)
\* whenever a target resolution was supplied, under either policy, and the
\* fallback layout only when none was supplied.
C9_Original ==
    MetadataNothing =>
        LET supplied == IF Truthy(arg_resolution) THEN arg_resolution
                        ELSE IF IsFixed THEN fixed_resolution ELSE None
        IN  ScansOnly(IF Truthy(supplied) THEN Routed(supplied) ELSE fallback_layout)

\* C9 amended: under the fixed policy the layout scanned is
\* layoutForResolution(target), the target being the caller's resolution or
\* else the configured one; under highest_available it is the fallback layout,
\* a caller's resolution being ignored; an absent or scan-less layout fails as
\* unresolved with no transfer and no other layout tried.
C9_FallbackLayout ==
    MetadataNothing => ScansOnly(IF IsFixed THEN Routed(FixedTarget) ELSE fallback_layout)

C9_Witness ==
    /\ MetadataNothing /\ IsHighest
    /\ arg_resolution = Some(1024)
    /\ CanScan(Routed(arg_resolution)) /\ Routed(arg_resolution)[1].name = "glbs_2k"
    /\ log[1].res.via = "scan" /\ log[1].res.layout = "glbs_1k"
    /\ log[1].res.attempts # << >>

\* C10: in a bucket scan, a failure other than not-found at bucket i ends the
\* scan there: it reaches the caller as the error it is, and no bucket after
\* i is tried.
C10_AbortOnError ==
    (Returned /\ log[1].res.via = "scan") =>
        LET res == log[1].res
            lay == ScannedLayout(res)
            k == lay.bucket_count[1]
        IN  \A i \in 0..(k - 1) :
                (/\ Hub(BucketFile(lay, i)) \in { "HttpError", "OtherError" }
                 /\ \A j \in 0..(i - 1) : Hub(BucketFile(lay, j)) = "NotFound") =>
                    /\ Len(res.attempts) = i + 1
                    /\ res.attempts[i + 1].index = Some(i)
                    /\ res.status = IF Hub(BucketFile(lay, i)) = "HttpError"
                                    THEN "HfHubHTTPError" ELSE "OtherError"
                    /\ res.local_path = None
                    /\ disk = disk0
                    /\ pc = IF Hub(BucketFile(lay, i)) = "HttpError" THEN "exit1" ELSE "crash"

C10_Witness ==
    /\ Returned /\ log[1].res.via = "scan"
    /\ ScannedLayout(log[1].res).bucket_count = Some(3)
    /\ Hub(BucketFile(ScannedLayout(log[1].res), 0)) = "NotFound"
    /\ Hub(BucketFile(ScannedLayout(log[1].res), 1)) = "HttpError"
    /\ Hub(BucketFile(ScannedLayout(log[1].res), 2)) = "ok"
    /\ log[1].res.status = "HfHubHTTPError"

====
